---- MODULE Spec2Model ----
(***************************************************************************)
(* link-summoner (src/main.go, the conversational version, lines 937-1504) *)
(*                                                                         *)
(* Strings are sequences of one-character strings (Go bytes).  Offsets are *)
(* 0-based as in the Go code; Slice(s, a, b) is the Go expression s[a:b].  *)
(* Confidence values are hundredths (0.8 is 80, 1.0 is 100).               *)
(***************************************************************************)
EXTENDS Integers, Sequences, FiniteSets, TLC

VARIABLES text, links, i, pc, url, confidence, reasoning, err, response, statusCode,
          browserErr, sortedLinks, result, k, output, sentencePos, sentence

vars == <<text, links, i, pc, url, confidence, reasoning, err, response, statusCode,
          browserErr, sortedLinks, result, k, output, sentencePos, sentence>>

----------------------------------------------------------------------------
(* Bounds of the model *)

\* largest number of links in a generated document of the patch specification
MaxLinks == 3
\* largest transcript length at which another message may still be appended
MaxMessages == 5
\* largest rejection-list length at which another URL may still be appended
MaxRejected == 2

\* most lines in a reply of the service
MaxLines == 3

\* most pieces a generated text is put together from
MaxPieces == 4

\* most characters of a text whose sentences are looked for
MaxChars == 4

----------------------------------------------------------------------------
(* String helpers: Go slicing, strings.HasPrefix, strings.TrimSpace,
   strings.ToLower, strings.Join *)

Slice(s, a, b) == SubSeq(s, a + 1, b)

HasPrefix(s, p) == Len(s) >= Len(p) /\ SubSeq(s, 1, Len(p)) = p

IsSpace(c) == c \in {" ", "\n", "\t", "\r"}

RECURSIVE TrimLeft(_)
TrimLeft(s) == IF s # <<>> /\ IsSpace(Head(s)) THEN TrimLeft(Tail(s)) ELSE s

RECURSIVE TrimRight(_)
TrimRight(s) ==
    IF s # <<>> /\ IsSpace(s[Len(s)]) THEN TrimRight(SubSeq(s, 1, Len(s) - 1)) ELSE s

TrimSpace(s) == TrimRight(TrimLeft(s))

UpperLetters == <<"A", "B", "C", "D", "E", "F", "G", "H", "I", "J", "K", "L", "M",
                  "N", "O", "P", "Q", "R", "S", "T", "U", "V", "W", "X", "Y", "Z">>
LowerLetters == <<"a", "b", "c", "d", "e", "f", "g", "h", "i", "j", "k", "l", "m",
                  "n", "o", "p", "q", "r", "s", "t", "u", "v", "w", "x", "y", "z">>

LowerChar(c) ==
    IF \E n \in 1..26 : UpperLetters[n] = c
    THEN LowerLetters[CHOOSE n \in 1..26 : UpperLetters[n] = c]
    ELSE c

ToLower(s) == [n \in 1..Len(s) |-> LowerChar(s[n])]

\* s occurs in t as a contiguous substring (strings.Contains)
Contains(t, s) ==
    \E a \in 0..(Len(t) - Len(s)) : Slice(t, a, a + Len(s)) = s

----------------------------------------------------------------------------
(* String constants of the program and of the modelled inputs *)

HttpPrefix  == <<"h", "t", "t", "p", ":", "/", "/">>
HttpsPrefix == <<"h", "t", "t", "p", "s", ":", "/", "/">>
FtpPrefix   == <<"f", "t", "p", ":", "/", "/">>

\* isURL, src/main.go:1122
\* faulty variant of isURL: the prefixes compared without regard to case
isURLAnyCase(s) ==
    HasPrefix(ToLower(s), HttpPrefix) \/ HasPrefix(ToLower(s), HttpsPrefix)
        \/ HasPrefix(ToLower(s), FtpPrefix)

isURL(s) == HasPrefix(s, HttpPrefix) \/ HasPrefix(s, HttpsPrefix) \/ HasPrefix(s, FtpPrefix)

\* fmt.Sprintf("[%s](%s)", label, target), src/main.go:1398-1399
LinkText(label, target) == <<"[">> \o label \o <<"]", "(">> \o target \o <<")">>

----------------------------------------------------------------------------
(* extractSentence, src/main.go:1100-1120 *)

IsTerminator(c) == c \in {".", "!", "?", "\n"}

RECURSIVE SentenceStart(_, _)
SentenceStart(t, start) ==
    IF start > 0 /\ ~IsTerminator(t[start]) THEN SentenceStart(t, start - 1) ELSE start

RECURSIVE SentenceEnd(_, _)
SentenceEnd(t, end) ==
    IF end < Len(t) /\ ~IsTerminator(t[end + 1]) THEN SentenceEnd(t, end + 1) ELSE end

\* faulty variant of extractSentence: the end++ of src/main.go:1115-1117 is
\* missing, the punctuation is left out
extractSentenceNoPunctuation(t, linkPos) ==
    TrimSpace(Slice(t, SentenceStart(t, linkPos), SentenceEnd(t, linkPos)))

extractSentence(t, linkPos) ==
    LET start == SentenceStart(t, linkPos)
        end0  == SentenceEnd(t, linkPos)
        end   == IF end0 < Len(t) THEN end0 + 1 ELSE end0
    IN  TrimSpace(Slice(t, start, end))

----------------------------------------------------------------------------
(* extractLinks, src/main.go:1076-1098.  The regular expression
   \[([^\]]+)\]\(([^)]+)\)  matched leftmost, non-overlapping. *)

\* 0-based index of the first occurrence of c in t at or after from, Len(t) if none
RECURSIVE IndexFrom(_, _, _)
IndexFrom(t, c, from) ==
    IF from >= Len(t) THEN Len(t)
    ELSE IF t[from + 1] = c THEN from
    ELSE IndexFrom(t, c, from + 1)

\* position of the closing bracket of a match starting at p
CloseBracket(t, p) == IndexFrom(t, "]", p + 1)
\* position of the closing parenthesis of a match starting at p
CloseParen(t, p) == IndexFrom(t, ")", CloseBracket(t, p) + 2)

\* the regular expression matches at 0-based offset p
MatchesAt(t, p) ==
    /\ p < Len(t)
    /\ t[p + 1] = "["
    /\ CloseBracket(t, p) >= p + 2
    /\ CloseBracket(t, p) + 1 < Len(t)
    /\ t[CloseBracket(t, p) + 2] = "("
    /\ CloseParen(t, p) >= CloseBracket(t, p) + 3
    /\ CloseParen(t, p) < Len(t)

\* faulty variant of LinkAt: EndPos is the offset of the closing parenthesis,
\* not the offset after it
LinkAtEndOnParen(t, p) ==
    [Text         |-> Slice(t, p + 1, CloseBracket(t, p)),
     Description  |-> Slice(t, CloseBracket(t, p) + 2, CloseParen(t, p)),
     Sentence     |-> extractSentence(t, p),
     URL          |-> <<>>,
     Confidence   |-> 0,
     StartPos     |-> p,
     EndPos       |-> CloseParen(t, p),
     Settled      |-> FALSE,
     Messages     |-> <<>>,
     RejectedURLs |-> <<>>]

\* the candidate of the match at p: LinkInfo literal of src/main.go:1087-1093
LinkAt(t, p) ==
    [Text         |-> Slice(t, p + 1, CloseBracket(t, p)),
     Description  |-> Slice(t, CloseBracket(t, p) + 2, CloseParen(t, p)),
     Sentence     |-> extractSentence(t, p),
     URL          |-> <<>>,
     Confidence   |-> 0,
     StartPos     |-> p,
     EndPos       |-> CloseParen(t, p) + 1,
     Settled      |-> FALSE,
     Messages     |-> <<>>,
     RejectedURLs |-> <<>>]

\* faulty variant of FindAllFrom: the search goes on one character after the
\* start of the match, not after its end
RECURSIVE FindAllOverlapping(_, _)
FindAllOverlapping(t, from) ==
    IF \E p \in from..(Len(t) - 1) : MatchesAt(t, p)
    THEN LET p == CHOOSE q \in from..(Len(t) - 1) :
                     /\ MatchesAt(t, q)
                     /\ \A r \in from..(q - 1) : ~MatchesAt(t, r)
         IN  <<LinkAt(t, p)>> \o FindAllOverlapping(t, p + 1)
    ELSE <<>>

\* FindAll: leftmost match at or after from, then continue after its end
RECURSIVE FindAllFrom(_, _)
FindAllFrom(t, from) ==
    IF \E p \in from..(Len(t) - 1) : MatchesAt(t, p)
    THEN LET p == CHOOSE q \in from..(Len(t) - 1) :
                     /\ MatchesAt(t, q)
                     /\ \A r \in from..(q - 1) : ~MatchesAt(t, r)
         IN  <<LinkAt(t, p)>> \o FindAllFrom(t, CloseParen(t, p) + 1)
    ELSE <<>>

extractLinks(t) == FindAllFrom(t, 0)

----------------------------------------------------------------------------
(* Conversation transcript, src/main.go:1160-1163, 1181-1184, 1246-1249,
   1294-1297, 1317.  A message is a role and a content; the content of a
   formatted message is the record of the values formatted into it.  The seed
   prompt ends with zero or more "previously rejected URLs" clauses, each the
   list of URLs joined into it. *)

UserMessage(content) == [Role |-> "user", Content |-> content]

AssistantMessage(lines) ==
    [Role |-> "assistant", Content |-> [Kind |-> "reply", Lines |-> lines]]

\* initialPrompt, src/main.go:1276-1292
\* the literal "\n\nIMPORTANT: Do NOT suggest any of these previously rejected
\* URLs: " of src/main.go:1278 and 1492, kept as one element of a text
ClausePrefix == "\n\nIMPORTANT: Do NOT suggest any of these previously rejected URLs: "

\* strings.Join(list, ", ")
RECURSIVE Join(_)
Join(list) ==
    IF list = <<>> THEN <<>>
    ELSE IF Len(list) = 1 THEN list[1]
    ELSE list[1] \o <<",", " ">> \o Join(Tail(list))

\* rejectedURLsText, src/main.go:1278 and 1492
RejectedURLsText(link) == <<ClausePrefix>> \o Join(link.RejectedURLs)

\* the seed prompt, src/main.go:1281-1292: the fixed text with the sentence and
\* the description filled in, and Suffix, the text put in place of the last %s
SeedContent(link) ==
    [Kind        |-> "seed",
     Sentence    |-> link.Sentence,
     Description |-> link.Description,
     Suffix      |-> IF Len(link.RejectedURLs) > 0 THEN RejectedURLsText(link) ELSE <<>>]

\* "You already suggested %s and I rejected it...", src/main.go:1162
AlreadyContent(u) == [Kind |-> "already", URL |-> u]

\* "The URL %s is not accessible (HTTP %d)... rejected URLs: %s", src/main.go:1183
InaccessibleContent(u, status, rejected) ==
    [Kind |-> "inaccessible", URL |-> u, Status |-> status, Rejected |-> rejected]

\* "%s (Note: Do NOT suggest any of these rejected URLs: %s)", src/main.go:1248, 1259
ContextContent(txt, rejected) ==
    [Kind |-> "context", Text |-> txt, Rejected |-> rejected]

----------------------------------------------------------------------------
(* parseAIResponse, src/main.go:1358-1380.  A reply is its sequence of lines;
   a line is its tag (the prefix the scan tests for, "OTHER" if none), and the
   trimmed value after the tag: a URL, a confidence in hundredths (Scanned
   tells whether Sscanf could read a number), a rationale. *)

URLLine(u)        == [Tag |-> "URL", URL |-> u, Scanned |-> FALSE, Number |-> 0, Reason |-> ""]
ConfidenceLine(c) == [Tag |-> "CONFIDENCE", URL |-> <<>>, Scanned |-> TRUE, Number |-> c, Reason |-> ""]
BadConfidenceLine == [Tag |-> "CONFIDENCE", URL |-> <<>>, Scanned |-> FALSE, Number |-> 0, Reason |-> ""]
ReasoningLine(r)  == [Tag |-> "REASONING", URL |-> <<>>, Scanned |-> FALSE, Number |-> 0, Reason |-> r]
OtherLine         == [Tag |-> "OTHER", URL |-> <<>>, Scanned |-> FALSE, Number |-> 0, Reason |-> ""]

\* faulty variant of ScanLine: a field that already has a value is kept
ScanLineFirst(acc, line) ==
    CASE line.Tag = "URL"        ->
             IF acc.url = <<>> THEN [acc EXCEPT !.url = line.URL] ELSE acc
      [] line.Tag = "CONFIDENCE" ->
             IF line.Scanned /\ acc.confidence = 0
             THEN [acc EXCEPT !.confidence = line.Number] ELSE acc
      [] line.Tag = "REASONING"  ->
             IF acc.reasoning = "" THEN [acc EXCEPT !.reasoning = line.Reason] ELSE acc
      [] OTHER                   -> acc

\* one iteration of the scan loop, src/main.go:1363-1373
ScanLine(acc, line) ==
    CASE line.Tag = "URL"        -> [acc EXCEPT !.url = line.URL]
      [] line.Tag = "CONFIDENCE" ->
             IF line.Scanned THEN [acc EXCEPT !.confidence = line.Number] ELSE acc
      [] line.Tag = "REASONING"  -> [acc EXCEPT !.reasoning = line.Reason]
      [] OTHER                   -> acc

RECURSIVE ScanLines(_, _)
ScanLines(acc, lines) ==
    IF lines = <<>> THEN acc ELSE ScanLines(ScanLine(acc, Head(lines)), Tail(lines))

parseAIResponse(lines) ==
    LET acc == ScanLines([url |-> <<>>, confidence |-> 0, reasoning |-> ""], lines)
    IN  IF acc.url = <<>>
        THEN [url |-> <<>>, confidence |-> 0, reasoning |-> "", err |-> "parse"]
        ELSE [url |-> acc.url, confidence |-> acc.confidence,
              reasoning |-> acc.reasoning, err |-> "nil"]

----------------------------------------------------------------------------
(* isURLRejected, verifyURL, updateInitialPromptWithRejectedURL *)

\* faulty variant of isURLRejected: the comparison of src/main.go:1454 never true
isURLRejectedNever(u, rejectedURLs) == FALSE

\* src/main.go:1452-1459
isURLRejected(u, rejectedURLs) ==
    \E n \in 1..Len(rejectedURLs) : u = rejectedURLs[n]

\* faulty variant of IsAccessible: the upper limit of src/main.go:1482 missing
IsAccessibleNoLimit(status) == status >= 200

\* src/main.go:1478-1482: the verdict for an HTTP status; a transport failure
\* is reported as status 0 (src/main.go:1473)
IsAccessible(status) == status >= 200 /\ status < 400

(* regexp.ReplaceAllString, src/main.go:1497-1498.  The replacement is a
   template: $$ stands for $, $name and ${name} for the text of the group of
   that name or number, empty when the expression has no such group, and name
   is the longest run of letters, digits and underscores; group 0 is the whole
   match; a $ followed by no name stays a $. *)

Digits == <<"0", "1", "2", "3", "4", "5", "6", "7", "8", "9">>

IsNameChar(c) ==
    \/ \E n \in 1..26 : c = UpperLetters[n] \/ c = LowerLetters[n]
    \/ \E n \in 1..10 : c = Digits[n]
    \/ c = "_"

\* length of the longest run of name characters at the start of s
RECURSIVE NameLen(_)
NameLen(s) ==
    IF s # <<>> /\ IsNameChar(Head(s)) THEN 1 + NameLen(Tail(s)) ELSE 0

\* the text of a group of the expression of src/main.go:1497, which has none
\* but group 0
GroupValue(name, match) == IF name = <<"0">> THEN match ELSE <<>>

RECURSIVE Expand(_, _)
Expand(template, match) ==
    IF template = <<>> THEN <<>>
    ELSE IF Head(template) # "$"
    THEN <<Head(template)>> \o Expand(Tail(template), match)
    ELSE LET rest == Tail(template)
         IN  IF rest # <<>> /\ rest[1] = "$"
             THEN <<"$">> \o Expand(Tail(rest), match)
             ELSE IF rest # <<>> /\ rest[1] = "{"
             THEN LET n == NameLen(Tail(rest))
                  IN  IF n > 0 /\ Len(rest) >= n + 2 /\ rest[n + 2] = "}"
                      THEN GroupValue(SubSeq(rest, 2, n + 1), match)
                               \o Expand(SubSeq(rest, n + 3, Len(rest)), match)
                      ELSE <<"$">> \o Expand(rest, match)
             ELSE LET n == NameLen(rest)
                  IN  IF n > 0
                      THEN GroupValue(SubSeq(rest, 1, n), match)
                               \o Expand(SubSeq(rest, n + 1, Len(rest)), match)
                      ELSE <<"$">> \o Expand(rest, match)

\* strings.Contains of src/main.go:1495
HasClause(suffix) == \E n \in 1..Len(suffix) : suffix[n] = ClausePrefix

\* index of the last element of the match of [^\n]* that starts at n
RECURSIVE LineEnd(_, _)
LineEnd(s, n) ==
    IF n <= Len(s) /\ s[n] # "\n" /\ s[n] # ClausePrefix
    THEN LineEnd(s, n + 1) ELSE n - 1

\* every match of the expression of src/main.go:1497 at or after n replaced
RECURSIVE ReplaceAllFrom(_, _, _)
ReplaceAllFrom(s, n, repl) ==
    IF n > Len(s) THEN <<>>
    ELSE IF s[n] = ClausePrefix
    THEN Expand(repl, SubSeq(s, n, LineEnd(s, n + 1)))
             \o ReplaceAllFrom(s, LineEnd(s, n + 1) + 1, repl)
    ELSE <<s[n]>> \o ReplaceAllFrom(s, n + 1, repl)

\* faulty variant of updateInitialPromptWithRejectedURL: the clause is always
\* added at the end, an existing one is not replaced
updateInitialPromptAdding(link) ==
    IF Len(link.Messages) > 0 /\ link.Messages[1].Role = "user"
    THEN [link EXCEPT !.Messages[1].Content.Suffix = @ \o RejectedURLsText(link)]
    ELSE link

\* faulty variant of updateInitialPromptWithRejectedURL: the first message is
\* never taken for the prompt, nothing is rewritten
updateInitialPromptSkipped(link) == link

\* src/main.go:1485-1504; link.RejectedURLs already holds the new URL
updateInitialPromptWithRejectedURL(link) ==
    IF Len(link.Messages) > 0 /\ link.Messages[1].Role = "user"
    THEN LET original == link.Messages[1].Content
             updated  ==
                 IF HasClause(original.Suffix)
                 THEN [original EXCEPT
                         !.Suffix = ReplaceAllFrom(@, 1, RejectedURLsText(link))]
                 ELSE [original EXCEPT !.Suffix = @ \o RejectedURLsText(link)]
         IN  [link EXCEPT !.Messages[1].Content = updated]
    ELSE link

\* faulty variant of RejectURL: the rejected list overwritten, not appended to
RejectURLReset(link, u) ==
    updateInitialPromptWithRejectedURL([link EXCEPT !.RejectedURLs = <<u>>])

\* src/main.go:1236-1240 and 1174-1178: append to the rejected list, then
\* rewrite the seed prompt
RejectURL(link, u) ==
    updateInitialPromptWithRejectedURL(
        [link EXCEPT !.RejectedURLs = Append(@, u)])

AppendMessage(link, m) == [link EXCEPT !.Messages = Append(@, m)]

----------------------------------------------------------------------------
(* Inputs of the model: documents, service replies, probe results, user lines *)

ScenarioDoc == <<"S", "e", "e", " ", "[", "X", "]", "(", "m", "y", " ", "q", "u", "e", "r", "y", ")", " ", "a", "n", "d", " ", "[", "Y", "]", "(", "h", "t", "t", "p", "s", ":", "/", "/", "a", ".", "c", "o", "m", "/", "b", ")", ".">>
ScenarioOut == <<"S", "e", "e", " ", "[", "X", "]", "(", "h", "t", "t", "p", "s", ":", "/", "/", "f", "o", "u", "n", "d", ".", "e", "x", "a", "m", "p", "l", "e", "/", "x", ")", " ", "a", "n", "d", " ", "[", "Y", "]", "(", "h", "t", "t", "p", "s", ":", "/", "/", "a", ".", "c", "o", "m", "/", "b", ")", ".">>
FoundURL    == <<"h", "t", "t", "p", "s", ":", "/", "/", "f", "o", "u", "n", "d", ".", "e", "x", "a", "m", "p", "l", "e", "/", "x">>
ScenarioURL == <<"h", "t", "t", "p", "s", ":", "/", "/", "a", ".", "c", "o", "m", "/", "b">>
OtherURL    == <<"h", "t", "t", "p", ":", "/", "/", "x">>
DollarURL   == <<"h", "t", "t", "p", ":", "/", "/", "x", "/", "$", "a">>
UserURL     == <<"f", "t", "p", ":", "/", "/", "a">>
OneLinkDoc  == <<"G", "o", " ", "[", "a", "]", "(", "b", ")", ".">>
ReverseDoc  == <<"[", "Y", "]", "(", "f", "t", "p", ":", "/", "/", "a", ")", " ", "[", "a", "]", "(", "b", ")">>
NoLinkDoc   == <<"p", "l", "a", "i", "n", ".">>
UpperDoc    == <<"[", "a", "]", "(", "F", "T", "P", ":", "/", "/", "a", ")">>

\* the documents ProcessFile is run on
Docs == {ScenarioDoc, ReverseDoc, NoLinkDoc, UpperDoc}

\* reply texts of the service, as line sequences: a URL with a confidence (in
\* hundredths) below, at and above the floor, a reply without a URL line, a
\* reply whose confidence cannot be scanned
ReplyContents ==
    {<<URLLine(FoundURL), ConfidenceLine(79), ReasoningLine("why")>>,
     <<URLLine(FoundURL), ConfidenceLine(80), ReasoningLine("why")>>,
     <<URLLine(OtherURL), ConfidenceLine(150), ReasoningLine("why")>>,
     <<OtherLine>>,
     <<URLLine(DollarURL), BadConfidenceLine>>}

\* outcomes of CreateChatCompletion, src/main.go:1300-1314
ServiceOutcomes ==
    {[Kind |-> "error", Lines |-> <<>>], [Kind |-> "nochoices", Lines |-> <<>>]}
    \cup {[Kind |-> "reply", Lines |-> c] : c \in ReplyContents}

\* HTTP statuses of the reachability probe: the first accepted value and the
\* first value past the accepted range; 0 is a transport failure
Statuses == {0, 200, 400}

\* raw lines read from standard input
RawInputs ==
    {<<"y", "\n">>, <<" ", "Y", "\n">>, <<"v", "\n">>, <<"\n">>, <<"m", "o", "r", "e", "\n">>, UserURL \o <<"\n">>,
     OtherURL \o <<"\n">>}

----------------------------------------------------------------------------
(* findURLWithConversation, src/main.go:1273-1320: the link and the values
   returned, for one outcome of the service call *)

\* faulty variant of findURLWithConversation: the test of src/main.go:1275 is
\* missing, every request starts with a seed prompt
findURLSeedingAlways(link, outcome) ==
    LET seeded == AppendMessage(link, UserMessage(SeedContent(link)))
        parsed == parseAIResponse(outcome.Lines)
    IN  CASE outcome.Kind = "error" ->
               [link |-> seeded, url |-> <<>>, confidence |-> 0, reasoning |-> "",
                err |-> "api"]
          [] outcome.Kind = "nochoices" ->
               [link |-> seeded, url |-> <<>>, confidence |-> 0, reasoning |-> "",
                err |-> "nochoices"]
          [] OTHER ->
               [link |-> AppendMessage(seeded, AssistantMessage(outcome.Lines)),
                url |-> parsed.url, confidence |-> parsed.confidence,
                reasoning |-> parsed.reasoning, err |-> parsed.err]

findURLWithConversation(link, outcome) ==
    LET seeded == IF Len(link.Messages) = 0
                  THEN AppendMessage(link, UserMessage(SeedContent(link)))
                  ELSE link
        parsed == parseAIResponse(outcome.Lines)
    IN  CASE outcome.Kind = "error" ->
               [link |-> seeded, url |-> <<>>, confidence |-> 0, reasoning |-> "",
                err |-> "api"]
          [] outcome.Kind = "nochoices" ->
               [link |-> seeded, url |-> <<>>, confidence |-> 0, reasoning |-> "",
                err |-> "nochoices"]
          [] OTHER ->
               [link |-> AppendMessage(seeded, AssistantMessage(outcome.Lines)),
                url |-> parsed.url, confidence |-> parsed.confidence,
                reasoning |-> parsed.reasoning, err |-> parsed.err]

----------------------------------------------------------------------------
(* applyChanges, src/main.go:1382-1418 *)

Swap(s, a, b) == [s EXCEPT ![a] = s[b], ![b] = s[a]]

\* inner loop of the sort, src/main.go:1388-1392
RECURSIVE SortInner(_, _, _)
SortInner(s, a, j) ==
    IF j > Len(s) THEN s
    ELSE SortInner(IF s[a].StartPos < s[j].StartPos THEN Swap(s, a, j) ELSE s, a, j + 1)

\* outer loop of the sort, src/main.go:1387-1393
RECURSIVE SortOuter(_, _)
SortOuter(s, a) ==
    IF a > Len(s) THEN s ELSE SortOuter(SortInner(s, a, a + 1), a + 1)

\* faulty variant of SortDescending: the comparison of src/main.go:1389 inverted
RECURSIVE SortInnerAscending(_, _, _)
SortInnerAscending(s, a, j) ==
    IF j > Len(s) THEN s
    ELSE SortInnerAscending(IF s[a].StartPos > s[j].StartPos THEN Swap(s, a, j) ELSE s,
                            a, j + 1)

RECURSIVE SortOuterAscending(_, _)
SortOuterAscending(s, a) ==
    IF a > Len(s) THEN s ELSE SortOuterAscending(SortInnerAscending(s, a, a + 1), a + 1)

SortAscending(s) == SortOuterAscending(s, 1)

SortDescending(s) == SortOuter(s, 1)

\* faulty variant of ShouldApply: the test of src/main.go:1397 left out
ShouldApplyAlways(link) == TRUE

\* src/main.go:1397
ShouldApply(link) == link.Settled /\ link.URL # <<>>

\* the slice expressions of src/main.go:1402-1403 are within range
InRange(res, link) ==
    /\ 0 <= link.StartPos /\ link.StartPos <= Len(res)
    /\ 0 <= link.EndPos /\ link.EndPos <= Len(res)

\* src/main.go:1398-1399
OldLink(link) == LinkText(link.Text, link.Description)
NewLink(link) == LinkText(link.Text, link.URL)

\* src/main.go:1402-1404
Splice(res, link) ==
    Slice(res, 0, link.StartPos) \o NewLink(link) \o Slice(res, link.EndPos, Len(res))

\* src/main.go:1407
SizeDiff(link) == Len(NewLink(link)) - Len(OldLink(link))

\* src/main.go:1409: the links whose stored offsets are moved after link is applied
NeedsShift(other, link) == other.StartPos < link.StartPos

\* src/main.go:1408-1413
ShiftPositions(sl, link) ==
    [n \in 1..Len(sl) |->
        IF NeedsShift(sl[n], link)
        THEN [sl[n] EXCEPT !.StartPos = @ + SizeDiff(link), !.EndPos = @ + SizeDiff(link)]
        ELSE sl[n]]

----------------------------------------------------------------------------
(* The state machine *)

Init ==
    /\ text \in Docs
    /\ links = <<>>
    /\ i = 0
    /\ pc = "start"
    /\ url = <<>>
    /\ confidence = 0
    /\ reasoning = ""
    /\ err = "nil"
    /\ response = <<>>
    /\ statusCode = 0
    /\ browserErr = "none"
    /\ sortedLinks = <<>>
    /\ result = <<>>
    /\ k = 0
    /\ output = <<>>
    /\ sentencePos = 0
    /\ sentence = <<>>

\* the suggestion held by processLink is gone once it returns; response keeps
\* the last line read from standard input
ResetLocals ==
    /\ url' = <<>>
    /\ confidence' = 0
    /\ reasoning' = ""
    /\ err' = "nil"
    /\ statusCode' = 0
    /\ browserErr' = "none"

patchVars == <<sortedLinks, result, k, output>>
localVars == <<url, confidence, reasoning, err, response, statusCode, browserErr>>

\* faulty variant of ReadAndExtract: the text is trimmed and kept trimmed
ReadAndExtractTrimmed ==
    /\ pc = "start"
    /\ text' = TrimSpace(text)
    /\ links' = extractLinks(text')
    /\ IF Len(links') = 0
       THEN pc' = "done" /\ i' = i
       ELSE pc' = "loop" /\ i' = 1
    /\ UNCHANGED <<sentencePos, sentence, localVars, patchVars>>

\* faulty variant of ReadAndExtract: no return when no link is found
ReadAndExtractNoReturn ==
    /\ pc = "start"
    /\ links' = extractLinks(text)
    /\ pc' = "loop"
    /\ i' = 1
    /\ UNCHANGED <<text, sentencePos, sentence, localVars, patchVars>>

\* ProcessFile, src/main.go:1015-1028
ReadAndExtract ==
    /\ pc = "start"
    /\ links' = extractLinks(text)
    /\ IF Len(links') = 0
       THEN pc' = "done" /\ i' = i
       ELSE pc' = "loop" /\ i' = 1
    /\ UNCHANGED <<text, sentencePos, sentence, localVars, patchVars>>

\* ProcessFile, src/main.go:1031-1044: the head of the loop over the links
NextLink ==
    /\ pc = "loop"
    /\ IF i > Len(links)
       THEN pc' = "apply" /\ UNCHANGED <<links, i>>
       ELSE IF isURL(links[i].Description)
            THEN /\ links' = [links EXCEPT ![i].URL = links[i].Description,
                                           ![i].Settled = TRUE]
                 /\ i' = i + 1
                 /\ pc' = "loop"
            ELSE /\ pc' = "request"
                 /\ UNCHANGED <<links, i>>
    /\ UNCHANGED <<text, sentencePos, sentence, localVars, patchVars>>

\* processLink, src/main.go:1136-1138: request a suggestion
FindURL ==
    /\ pc = "request"
    /\ Len(links[i].Messages) < MaxMessages
    /\ \E outcome \in ServiceOutcomes :
         LET r == findURLWithConversation(links[i], outcome)
         IN  /\ links' = [links EXCEPT ![i] = r.link]
             /\ url' = r.url
             /\ confidence' = r.confidence
             /\ reasoning' = r.reasoning
             /\ err' = r.err
    /\ pc' = "got"
    /\ UNCHANGED <<text, sentencePos, sentence, i, response, statusCode, browserErr, patchVars>>

\* number of automatic messages in a transcript: one for every re-query made
\* without asking the user
AutoCount(link) ==
    Cardinality({n \in 1..Len(link.Messages) :
                    /\ link.Messages[n].Role = "user"
                    /\ link.Messages[n].Content.Kind \in {"already", "inaccessible"}})

\* faulty variant of HandleSuggestion: after one automatic re-query a repeated
\* rejected URL is handed to the user like a failed request
HandleSuggestionCapped ==
    /\ pc = "got"
    /\ IF err # "nil"
       THEN pc' = "retry" /\ UNCHANGED links
       ELSE IF isURLRejected(url, links[i].RejectedURLs)
            THEN IF AutoCount(links[i]) >= 1
                 THEN pc' = "retry" /\ UNCHANGED links
                 ELSE /\ links' = [links EXCEPT
                             ![i] = AppendMessage(@, UserMessage(AlreadyContent(url)))]
                      /\ pc' = "request"
            ELSE pc' = "verify" /\ UNCHANGED links
    /\ UNCHANGED <<text, sentencePos, sentence, i, localVars, patchVars>>

\* processLink, src/main.go:1139-1168: failure, rejection short-circuit, or on
\* to the reachability probe
HandleSuggestion ==
    /\ pc = "got"
    /\ IF err # "nil"
       THEN pc' = "retry" /\ UNCHANGED links
       ELSE IF isURLRejected(url, links[i].RejectedURLs)
            THEN /\ links' = [links EXCEPT
                        ![i] = AppendMessage(@, UserMessage(AlreadyContent(url)))]
                 /\ pc' = "request"
            ELSE pc' = "verify" /\ UNCHANGED links
    /\ UNCHANGED <<text, sentencePos, sentence, i, localVars, patchVars>>

\* faulty variant of WantsRetry: the answer compared without strings.ToLower
WantsRetryExact(resp) == resp = <<"y">>

\* src/main.go:1147: the answer to "Would you like to retry? (y/n)" is yes
WantsRetry(resp) == ToLower(resp) = <<"y">>

\* processLink, src/main.go:1141-1152: "Would you like to retry? (y/n)"
RetryPrompt ==
    /\ pc = "retry"
    /\ \E raw \in RawInputs :
         /\ response' = TrimSpace(raw)
         /\ IF WantsRetry(TrimSpace(raw))
            THEN /\ pc' = "request"
                 /\ UNCHANGED <<i, url, confidence, reasoning, err, statusCode, browserErr>>
            ELSE /\ pc' = "loop"
                 /\ i' = i + 1
                 /\ ResetLocals
    /\ UNCHANGED <<text, sentencePos, sentence, links, patchVars>>

\* processLink, src/main.go:1169-1187, with verifyURL, src/main.go:1461-1483
VerifyURL ==
    /\ pc = "verify"
    /\ \E status \in Statuses :
         /\ statusCode' = status
         /\ IF ~IsAccessible(status)
            THEN /\ links' = [links EXCEPT ![i] =
                        AppendMessage(RejectURL(@, url),
                            UserMessage(InaccessibleContent(url, status,
                                Append(links[i].RejectedURLs, url))))]
                 /\ pc' = "request"
            ELSE pc' = "decide" /\ UNCHANGED links
    /\ UNCHANGED <<text, sentencePos, sentence, i, url, confidence, reasoning, err, response, browserErr, patchVars>>

----------------------------------------------------------------------------
(* processLink, src/main.go:1196-1267: one pass of the decision loop *)

\* 0.8 of src/main.go:1205, in hundredths
ConfidenceFloor == 80

\* faulty variant of MeetsFloor: > in place of >= at src/main.go:1205
MeetsFloorStrict(c) == c > ConfidenceFloor

\* src/main.go:1205
MeetsFloor(c) == c >= ConfidenceFloor

\* 1.0 of src/main.go:1230, in hundredths
UserConfidence == 100

\* faulty variant of Settle: link.Confidence is not assigned
SettleKeepsConfidence(link, u, c) == [link EXCEPT !.URL = u, !.Settled = TRUE]

\* faulty variant of Settle: link.Settled is not assigned
SettleWithoutFlag(link, u, c) == [link EXCEPT !.URL = u, !.Confidence = c]

\* src/main.go:1206-1208 and 1229-1231: the three assignments that settle a link
Settle(link, u, c) == [link EXCEPT !.URL = u, !.Confidence = c, !.Settled = TRUE]

\* faulty variant of IsView: the case "v" of src/main.go:1216 is missing
IsViewNever(resp) == FALSE

\* src/main.go:1216: the lower-cased line is the view command
IsView(resp) == ToLower(resp) = <<"v">>

\* outcomes of openInBrowser, src/main.go:1217-1222: nil or an error
BrowserOutcomes == {"nil", "error"}

\* faulty variant of decide: "y" below the floor leaves processLink with the
\* link as it is
decideLeavingBelowFloor(link, u, c, resp) ==
    CASE ToLower(resp) = <<"y">> ->
           IF MeetsFloor(c)
           THEN [link |-> Settle(link, u, c), next |-> "return"]
           ELSE [link |-> link, next |-> "return"]
      [] IsView(resp) ->
           [link |-> link, next |-> "view"]
      [] OTHER ->
           IF isURL(resp)
           THEN [link |-> Settle(link, resp, UserConfidence), next |-> "return"]
           ELSE IF resp # <<>>
                THEN [link |-> AppendMessage(RejectURL(link, u),
                                   UserMessage(ContextContent(resp,
                                       Append(link.RejectedURLs, u)))),
                      next |-> "prompt"]
                ELSE [link |-> RejectURL(link, u), next |-> "context"]

\* the link after the switch statement and where control goes next: "return"
\* (settled), "prompt" (the decision loop runs again: a break inside a switch
\* leaves the switch, not the enclosing for), "context" (the second read of
\* src/main.go:1252)
decide(link, u, c, resp) ==
    CASE ToLower(resp) = <<"y">> ->
           IF MeetsFloor(c)
           THEN [link |-> Settle(link, u, c), next |-> "return"]
           ELSE [link |-> link, next |-> "prompt"]
      [] IsView(resp) ->
           [link |-> link, next |-> "view"]
      [] OTHER ->
           IF isURL(resp)
           THEN [link |-> Settle(link, resp, UserConfidence), next |-> "return"]
           ELSE IF resp # <<>>
                THEN [link |-> AppendMessage(RejectURL(link, u),
                                   UserMessage(ContextContent(resp,
                                       Append(link.RejectedURLs, u)))),
                      next |-> "prompt"]
                ELSE [link |-> RejectURL(link, u), next |-> "context"]

\* the pass appends to the rejected list (and so is subject to the model's caps)
Rejects(resp) ==
    /\ ToLower(resp) # <<"y">>
    /\ ToLower(resp) # <<"v">>
    /\ ~isURL(resp)

\* processLink, src/main.go:1197-1266
Decide ==
    /\ pc = "decide"
    /\ \E raw \in RawInputs :
         LET resp == TrimSpace(raw)
             d    == decide(links[i], url, confidence, resp)
         IN  /\ Rejects(resp) =>
                    /\ Len(links[i].RejectedURLs) < MaxRejected
                    /\ Len(links[i].Messages) < MaxMessages
             /\ links' = [links EXCEPT ![i] = d.link]
             /\ response' = resp
             /\ IF d.next = "return"
                THEN pc' = "loop" /\ i' = i + 1 /\ ResetLocals
                ELSE /\ pc' = (IF d.next = "context" THEN "context" ELSE "decide")
                     /\ IF d.next = "view"
                        THEN browserErr' \in BrowserOutcomes
                        ELSE browserErr' = "none"
                     /\ UNCHANGED <<i, url, confidence, reasoning, err, statusCode>>
    /\ UNCHANGED <<text, sentencePos, sentence, patchVars>>

\* processLink, src/main.go:1251-1265: "Please add more context"
AddContext ==
    /\ pc = "context"
    /\ \E raw \in RawInputs :
         LET additionalContext == TrimSpace(raw)
         IN  links' = [links EXCEPT ![i] =
                 IF additionalContext # <<>>
                 THEN AppendMessage(@, UserMessage(ContextContent(additionalContext,
                                           links[i].RejectedURLs)))
                 ELSE @]
    /\ pc' = "decide"
    /\ UNCHANGED <<text, sentencePos, sentence, i, localVars, patchVars>>

----------------------------------------------------------------------------
(* ProcessFile, src/main.go:1056-1073: patch and write *)

\* faulty variant of ApplySort: the sort works on the caller's slice, not on a
\* copy of it
ApplySortInPlace ==
    /\ pc = "apply"
    /\ links' = SortDescending(links)
    /\ sortedLinks' = links'
    /\ result' = text
    /\ k' = 1
    /\ pc' = "patch"
    /\ UNCHANGED <<text, sentencePos, sentence, i, localVars, output>>

\* applyChanges, src/main.go:1384-1395: copy, sort, start from the text
ApplySort ==
    /\ pc = "apply"
    /\ sortedLinks' = SortDescending(links)
    /\ result' = text
    /\ k' = 1
    /\ pc' = "patch"
    /\ UNCHANGED <<text, sentencePos, sentence, links, i, localVars, output>>

\* applyChanges, src/main.go:1396-1417: one iteration of the loop over the
\* sorted links; an out-of-range slice expression aborts the program
ApplyStep ==
    /\ pc = "patch"
    /\ IF k > Len(sortedLinks)
       THEN pc' = "write" /\ UNCHANGED <<sortedLinks, result, k>>
       ELSE IF ~ShouldApply(sortedLinks[k])
            THEN pc' = "patch" /\ k' = k + 1 /\ UNCHANGED <<sortedLinks, result>>
            ELSE IF ~InRange(result, sortedLinks[k])
                 THEN pc' = "panic" /\ UNCHANGED <<sortedLinks, result, k>>
                 ELSE /\ result' = Splice(result, sortedLinks[k])
                      /\ sortedLinks' = ShiftPositions(sortedLinks, sortedLinks[k])
                      /\ k' = k + 1
                      /\ pc' = "patch"
    /\ UNCHANGED <<text, sentencePos, sentence, links, i, localVars, output>>

\* ProcessFile, src/main.go:1059-1073
WriteFile ==
    /\ pc = "write"
    /\ output' = Append(output, result)
    /\ pc' = "done"
    /\ UNCHANGED <<text, sentencePos, sentence, links, i, localVars, sortedLinks, result, k>>

Next ==
    \/ ReadAndExtract
    \/ NextLink
    \/ FindURL
    \/ HandleSuggestion
    \/ RetryPrompt
    \/ VerifyURL
    \/ Decide
    \/ AddContext
    \/ ApplySort
    \/ ApplyStep
    \/ WriteFile

Spec == Init /\ [][Next]_vars

----------------------------------------------------------------------------
(* The patcher on its own: applyChanges run on the candidate lists that the
   resolution of a generated document can leave behind *)

LabelLetters == <<"a", "c", "e", "g", "i", "k">>

ShortDesc == <<"b">>
LongDesc  == <<"a", " ", "l", "o", "n", "g", " ", "q", "u", "e", "r", "y">>

\* descriptions of the generated links: placeholders shorter and longer than
\* the URLs, and a description that is a URL already
Descriptions == {ShortDesc, LongDesc, UserURL}

\* URLs a placeholder may be resolved to
PatchURLs == {OtherURL, FoundURL}

\* documents of n links, each preceded by a space
RECURSIVE PatchDocsOf(_)
PatchDocsOf(n) ==
    IF n = 0 THEN {<<>>}
    ELSE {d \o <<" ">> \o LinkText(<<LabelLetters[n]>>, desc) :
              d \in PatchDocsOf(n - 1), desc \in Descriptions}

PatchDocs == UNION {PatchDocsOf(n) : n \in 1..MaxLinks}

\* what the loop of ProcessFile can leave of one extracted link: settled on
\* its own description, skipped after a failed request, or settled with "y"
\* on a suggestion at the confidence floor
Resolved(link) ==
    IF isURL(link.Description)
    THEN {[link EXCEPT !.URL = link.Description, !.Settled = TRUE]}
    ELSE {findURLWithConversation(link, [Kind |-> "error", Lines |-> <<>>]).link}
         \cup {decide(findURLWithConversation(link,
                         [Kind |-> "reply",
                          Lines |-> <<URLLine(u), ConfidenceLine(ConfidenceFloor)>>]).link,
                      u, ConfidenceFloor, <<"y">>).link : u \in PatchURLs}

RECURSIVE Resolutions(_)
Resolutions(ls) ==
    IF ls = <<>> THEN {<<>>}
    ELSE {<<r>> \o rest : r \in Resolved(Head(ls)), rest \in Resolutions(Tail(ls))}

InitPatch ==
    /\ text \in PatchDocs
    /\ links \in Resolutions(extractLinks(text))
    /\ i = Len(links) + 1
    /\ pc = "apply"
    /\ url = <<>>
    /\ confidence = 0
    /\ reasoning = ""
    /\ err = "nil"
    /\ response = <<>>
    /\ statusCode = 0
    /\ browserErr = "none"
    /\ sortedLinks = <<>>
    /\ result = <<>>
    /\ k = 0
    /\ output = <<>>
    /\ sentencePos = 0
    /\ sentence = <<>>

NextPatch ==
    \/ ApplySort
    \/ ApplyStep
    \/ WriteFile

SpecPatch == InitPatch /\ [][NextPatch]_vars

----------------------------------------------------------------------------
(* Replies of any shape.  The second specification starts inside
   findURLWithConversation, at src/main.go:1319: the reply has just been
   appended to the transcript of the one candidate of OneLinkDoc and is about
   to be parsed. *)

\* the lines a reply is made of: URL lines with two values and with none,
\* confidences below and at the floor and one that does not scan, two
\* rationales, and a line with no tag
ReplyLines ==
    {URLLine(FoundURL), URLLine(OtherURL), URLLine(<<>>),
     ConfidenceLine(79), ConfidenceLine(80), BadConfidenceLine,
     ReasoningLine("why"), ReasoningLine("alt"), OtherLine}

\* the replies of at most MaxLines lines
Replies == UNION {[1..n -> ReplyLines] : n \in 0..MaxLines}

InitParse ==
    /\ text = OneLinkDoc
    /\ \E lines \in Replies :
          links = [n \in 1..Len(extractLinks(text)) |->
                      AppendMessage(
                          AppendMessage(extractLinks(text)[n],
                                        UserMessage(SeedContent(extractLinks(text)[n]))),
                          AssistantMessage(lines))]
    /\ i = 1
    /\ pc = "parse"
    /\ url = <<>>
    /\ confidence = 0
    /\ reasoning = ""
    /\ err = "nil"
    /\ response = <<>>
    /\ statusCode = 0
    /\ browserErr = "none"
    /\ sortedLinks = <<>>
    /\ result = <<>>
    /\ k = 0
    /\ output = <<>>
    /\ sentencePos = 0
    /\ sentence = <<>>

\* findURLWithConversation, src/main.go:1319, and the assignment of its
\* results at src/main.go:1138
ParseReply ==
    /\ pc = "parse"
    /\ LET r == parseAIResponse(links[i].Messages[Len(links[i].Messages)].Content.Lines)
       IN  /\ url' = r.url
           /\ confidence' = r.confidence
           /\ reasoning' = r.reasoning
           /\ err' = r.err
    /\ pc' = "got"
    /\ UNCHANGED <<text, sentencePos, sentence, links, i, response, statusCode, browserErr, patchVars>>

NextParse ==
    \/ ParseReply
    \/ HandleSuggestion

SpecParse == InitParse /\ [][NextParse]_vars

----------------------------------------------------------------------------
(* Extraction on its own: extractLinks run on texts put together from pieces
   of links, so that brackets nest, links touch, and sentence terminators fall
   inside and outside labels and descriptions *)

PieceOpen  == <<"[", "a">>
PieceMid   == <<"]", "(", "b">>
PieceClose == <<")">>
PieceLink  == <<"[", "a", "]", "(", "b", ")">>

Pieces == {PieceOpen, PieceMid, PieceClose, PieceLink, <<".">>, <<"\n">>, <<" ">>, <<"x">>}

RECURSIVE TextsOf(_)
TextsOf(n) ==
    IF n = 0 THEN {<<>>}
    ELSE {t \o piece : t \in TextsOf(n - 1), piece \in Pieces}

\* the texts of at most MaxPieces pieces
Texts == UNION {TextsOf(n) : n \in 0..MaxPieces}

InitExtract ==
    /\ text \in Texts
    /\ links = <<>>
    /\ i = 0
    /\ pc = "start"
    /\ url = <<>>
    /\ confidence = 0
    /\ reasoning = ""
    /\ err = "nil"
    /\ response = <<>>
    /\ statusCode = 0
    /\ browserErr = "none"
    /\ sortedLinks = <<>>
    /\ result = <<>>
    /\ k = 0
    /\ output = <<>>
    /\ sentencePos = 0
    /\ sentence = <<>>

\* a second call of extractLinks, src/main.go:1076-1098, on the same text
ExtractAgain ==
    /\ pc \in {"loop", "done"}
    /\ links' = extractLinks(text)
    /\ pc' = "again"
    /\ UNCHANGED <<text, sentencePos, sentence, i, localVars, patchVars>>

NextExtract ==
    \/ ReadAndExtract
    \/ ExtractAgain

SpecExtract == InitExtract /\ [][NextExtract]_vars

----------------------------------------------------------------------------
(* extractSentence on its own: any position of any short text made of the
   four terminators, a blank and a letter *)

SentenceChars == {".", "!", "?", "\n", " ", "a"}

\* the texts of at most MaxChars characters
SentenceTexts == UNION {[1..n -> SentenceChars] : n \in 0..MaxChars}

InitSentence ==
    /\ text \in SentenceTexts
    /\ sentencePos \in 0..Len(text)
    /\ sentence = <<>>
    /\ pc = "sentence"
    /\ links = <<>>
    /\ i = 0
    /\ url = <<>>
    /\ confidence = 0
    /\ reasoning = ""
    /\ err = "nil"
    /\ response = <<>>
    /\ statusCode = 0
    /\ browserErr = "none"
    /\ sortedLinks = <<>>
    /\ result = <<>>
    /\ k = 0
    /\ output = <<>>

\* the call of src/main.go:1085
ExtractSentence ==
    /\ pc = "sentence"
    /\ sentence' = extractSentence(text, sentencePos)
    /\ pc' = "sentenced"
    /\ UNCHANGED <<text, sentencePos, links, i, localVars, patchVars>>

NextSentence == ExtractSentence

SpecSentence == InitSentence /\ [][NextSentence]_vars

----------------------------------------------------------------------------
(* Properties of the patcher (SpecPatch) *)

\* the text a correct patch returns: the original text with the span of every
\* applied candidate, taken at its original offsets, replaced by its new link
RECURSIVE ExpectedFrom(_, _, _)
ExpectedFrom(t, ls, pos) ==
    IF ls = <<>> THEN Slice(t, pos, Len(t))
    ELSE Slice(t, pos, Head(ls).StartPos)
         \o (IF Head(ls).Settled /\ Head(ls).URL # <<>>
             THEN LinkText(Head(ls).Text, Head(ls).URL)
             ELSE Slice(t, Head(ls).StartPos, Head(ls).EndPos))
         \o ExpectedFrom(t, Tail(ls), Head(ls).EndPos)

ExpectedPatch == ExpectedFrom(text, links, 0)

NoneSettled == \A n \in 1..Len(links) : ~links[n].Settled

\* C1: when applyChanges returns, the result is the original text with the
\* span of each settled candidate replaced by [label](resolvedURL) and every
\* byte outside the settled spans unchanged and in its original order
C1_PatchCorrect == pc = "write" => result = ExpectedPatch

\* C2: when applyChanges returns, the placeholder [label](description) of
\* every candidate that was not applied still occurs in the result
C2_UnsettledKept ==
    pc = "write" =>
        \A n \in 1..Len(links) :
            ~(links[n].Settled /\ links[n].URL # <<>>) =>
                Contains(result, LinkText(links[n].Text, links[n].Description))

\* C3: when no candidate is settled, applyChanges returns the original text
C3_NoOpPatch == (pc = "write" /\ NoneSettled) => result = text

\* C3 witness: applyChanges has returned for a document of several links, none
\* of them settled
C3_Witness == pc = "write" /\ NoneSettled /\ Len(links) >= 2 /\ result = text

----------------------------------------------------------------------------
(* Properties of the whole run (Spec) *)

\* C4: on the scenario document extraction yields two candidates, the second
\* is settled on its own description as soon as the loop passes it, and once
\* the first is resolved to https://found.example/x the patched text that is
\* returned and written is the scenario's expected text
C4_Scenario ==
    text = ScenarioDoc =>
        /\ pc # "start" => Len(links) = 2
        /\ (pc # "start" /\ i > 2) =>
               links[2].Settled /\ links[2].URL = ScenarioURL
        /\ (pc \in {"write", "done"} /\ links[1].Settled /\ links[1].URL = FoundURL) =>
               result = ScenarioOut
        /\ (pc = "done" /\ links[1].Settled /\ links[1].URL = FoundURL) =>
               output = <<ScenarioOut>>

\* C4 witness: the scenario has run to its end with the first candidate
\* resolved to the found URL
C4_Witness ==
    /\ text = ScenarioDoc
    /\ pc = "done"
    /\ Len(links) = 2
    /\ links[1].Settled /\ links[1].URL = FoundURL
    /\ links[2].Settled /\ links[2].URL = ScenarioURL
    /\ output = <<ScenarioOut>>

\* u is an element of the list
InList(u, list) == \E n \in 1..Len(list) : list[n] = u

NoDuplicates(list) ==
    \A m, n \in 1..Len(list) : list[m] = list[n] => m = n

\* C5: no candidate's RejectedURLs ever contains the same URL twice
C5_NoDuplicateRejections ==
    \A n \in 1..Len(links) : NoDuplicates(links[n].RejectedURLs)

\* C6: no step removes an entry of a candidate's RejectedURLs: every URL in
\* the list before the step is in it after the step, and the list is not shorter
C6_RejectionsNeverShrink ==
    [][\A n \in 1..Len(links) :
          /\ n \in 1..Len(links')
          /\ Len(links'[n].RejectedURLs) >= Len(links[n].RejectedURLs)
          /\ \A m \in 1..Len(links[n].RejectedURLs) :
                 InList(links[n].RejectedURLs[m], links'[n].RejectedURLs)]_vars

\* C6 witness: a candidate has had two URLs rejected, one after the other
C6_Witness ==
    \E n \in 1..Len(links) :
        /\ Len(links[n].RejectedURLs) = 2
        /\ links[n].RejectedURLs[1] # links[n].RejectedURLs[2]

\* C7: when the reply parsed to a URL already in RejectedURLs, the step taken
\* appends the "you already suggested" user message and goes back to the
\* suggestion request, with no line read from the user, no probe made, and
\* RejectedURLs and the resolution unchanged; the step after it is the request
C7_RejectionShortCircuit ==
    [][/\ (pc = "got" /\ err = "nil" /\ InList(url, links[i].RejectedURLs)) =>
             /\ pc' = "request"
             /\ i' = i
             /\ links'[i].Messages =
                    Append(links[i].Messages, UserMessage(AlreadyContent(url)))
             /\ links'[i].RejectedURLs = links[i].RejectedURLs
             /\ links'[i].Settled = links[i].Settled
             /\ links'[i].URL = links[i].URL
             /\ response' = response
             /\ statusCode' = statusCode
       /\ pc = "request" => pc' = "got"]_vars

\* C7 witness: the resolver is back at the suggestion request right after
\* telling the service that it repeated a rejected URL
C7_Witness ==
    /\ pc = "request"
    /\ Len(links[i].Messages) > 0
    /\ links[i].Messages[Len(links[i].Messages)].Content.Kind = "already"
    /\ InList(links[i].Messages[Len(links[i].Messages)].Content.URL,
              links[i].RejectedURLs)

\* C8: whenever the user is at the decision prompt for a suggested URL, that
\* URL is not in the candidate's RejectedURLs
C8_PromptedNotRejected ==
    pc = "decide" => ~InList(url, links[i].RejectedURLs)

\* the line is free text: not empty, not y, not v, not a URL
IsFreeText(r) ==
    /\ r # <<>>
    /\ ToLower(r) # <<"y">>
    /\ ToLower(r) # <<"v">>
    /\ ~(HasPrefix(r, HttpPrefix) \/ HasPrefix(r, HttpsPrefix) \/ HasPrefix(r, FtpPrefix))

\* C9: free text entered at the decision prompt adds the suggested URL to
\* RejectedURLs, appends a user message with the text and the rejected list,
\* and leaves the resolver at the suggestion request, not at the prompt
C9_AddContextRequeries ==
    [][(pc = "decide" /\ IsFreeText(response')) =>
          /\ InList(url, links'[i].RejectedURLs)
          /\ links'[i].Messages[Len(links'[i].Messages)] =
                 UserMessage(ContextContent(response', links'[i].RejectedURLs))
          /\ pc' = "request"]_vars

\* C10: y at the decision prompt settles the candidate on the suggestion if
\* and only if the confidence is at least 0.8; below it the candidate stays
\* unsettled without a URL and the prompt is shown again
C10_ConfidenceFloor ==
    [][(pc = "decide" /\ ToLower(response') = <<"y">>) =>
          IF confidence >= 80
          THEN /\ links'[i].Settled
               /\ links'[i].URL = url
               /\ links'[i].Confidence = confidence
          ELSE /\ ~links'[i].Settled
               /\ links'[i].URL = <<>>
               /\ pc' = "decide"]_vars

\* C10 witness: y has just been refused for a suggestion below the floor
C10_Witness ==
    /\ pc = "decide"
    /\ ToLower(response) = <<"y">>
    /\ confidence = 79
    /\ ~links[i].Settled
    /\ links[i].URL = <<>>

----------------------------------------------------------------------------
(* The user's own URL, failed probes, and descriptions that are URLs *)

\* the string starts with http://, https:// or ftp://, compared as written
StartsWithScheme(s) ==
    \E p \in {HttpPrefix, HttpsPrefix, FtpPrefix} :
        Len(s) >= Len(p) /\ SubSeq(s, 1, Len(p)) = p

LastMessage(link) == link.Messages[Len(link.Messages)]

\* C11: a line starting with http://, https:// or ftp:// entered at the
\* decision prompt settles the candidate with that exact string as its URL and
\* confidence 1.0, whatever the suggestion's confidence and whatever
\* RejectedURLs holds
C11_UserURLOverride ==
    [][(pc = "decide" /\ StartsWithScheme(response')) =>
          /\ links'[i].Settled
          /\ links'[i].URL = response'
          /\ links'[i].Confidence = 100
          /\ links'[i].RejectedURLs = links[i].RejectedURLs
          /\ pc' = "loop"
          /\ i' = i + 1]_vars

\* C11 witness: a candidate is settled at confidence 1.0 on a URL that is in
\* its own RejectedURLs, so the user typed it after it had been rejected
C11_Witness ==
    \E n \in 1..Len(links) :
        /\ links[n].Settled
        /\ links[n].Confidence = 100
        /\ links[n].Messages # <<>>
        /\ InList(links[n].URL, links[n].RejectedURLs)

\* C12: a probe status outside 200..399, 0 included, adds the suggested URL to
\* RejectedURLs, appends a user message citing the URL and the status, and goes
\* straight back to the suggestion request: no line is read from the user and
\* the candidate stays unsettled
C12_VerificationFailure ==
    [][(pc = "verify" /\ ~(statusCode' \in 200..399)) =>
          /\ links'[i].RejectedURLs = Append(links[i].RejectedURLs, url)
          /\ Len(links'[i].Messages) = Len(links[i].Messages) + 1
          /\ LastMessage(links'[i]).Role = "user"
          /\ LastMessage(links'[i]).Content.Kind = "inaccessible"
          /\ LastMessage(links'[i]).Content.URL = url
          /\ LastMessage(links'[i]).Content.Status = statusCode'
          /\ ~links'[i].Settled
          /\ links'[i].URL = <<>>
          /\ pc' = "request"
          /\ i' = i
          /\ response' = response]_vars

\* C12 witness: the transcript of one candidate holds a failure message for a
\* transport failure and one for an HTTP status past the range
C12_Witness ==
    /\ pc = "request"
    /\ \E a, b \in 1..Len(links[i].Messages) :
          /\ links[i].Messages[a].Role = "user"
          /\ links[i].Messages[b].Role = "user"
          /\ links[i].Messages[a].Content.Kind = "inaccessible"
          /\ links[i].Messages[b].Content.Kind = "inaccessible"
          /\ links[i].Messages[a].Content.Status = 0
          /\ links[i].Messages[b].Content.Status = 400
    /\ Len(links[i].RejectedURLs) = 2

\* the resolver is working on candidate i: a request, a probe or a prompt
InResolver == pc \in {"request", "got", "retry", "verify", "decide", "context"}

\* C13: a candidate whose description starts with http://, https:// or ftp://
\* (compared as written) is settled on its description by the loop itself: no
\* request, probe or prompt is ever made for it, its transcript stays empty;
\* any other candidate goes to the resolver
C13_URLShortCircuit ==
    /\ [](InResolver => ~StartsWithScheme(links[i].Description))
    /\ [](\A n \in 1..Len(links) :
             StartsWithScheme(links[n].Description) =>
                 links[n].Messages = <<>> /\ links[n].RejectedURLs = <<>>)
    /\ [][(pc = "loop" /\ i <= Len(links)) =>
             IF StartsWithScheme(links[i].Description)
             THEN /\ links'[i].Settled
                  /\ links'[i].URL = links[i].Description
                  /\ pc' = "loop"
                  /\ i' = i + 1
                  /\ UNCHANGED localVars
             ELSE /\ pc' = "request"
                  /\ links' = links]_vars

\* C13 witness: processing is over, with one candidate settled on its own
\* description and an empty transcript while another one went to the resolver
C13_Witness ==
    /\ pc = "done"
    /\ \E n, m \in 1..Len(links) :
          /\ StartsWithScheme(links[n].Description)
          /\ links[n].Settled
          /\ links[n].URL = links[n].Description
          /\ links[n].Messages = <<>>
          /\ links[m].Messages # <<>>

\* C14: at the end of processing, a candidate settled because its description
\* is a URL has confidence 1.0
C14_ShortCircuitConfidence ==
    pc = "done" =>
        \A n \in 1..Len(links) :
            (StartsWithScheme(links[n].Description) /\ links[n].Settled) =>
                links[n].Confidence = 100

\* C15: in every state and for every candidate, the URL is non-empty exactly
\* when the candidate is settled
C15_URLIffSettled ==
    \A n \in 1..Len(links) : (links[n].URL # <<>>) <=> links[n].Settled

\* C15 witness: processing is over with a settled candidate that has a URL
\* next to a skipped one, asked about and left without a URL
C15_Witness ==
    /\ pc = "done"
    /\ \E n, m \in 1..Len(links) :
          /\ links[n].Settled /\ links[n].Messages = <<>>
          /\ links[n].URL # <<>>
          /\ links[m].Messages # <<>>
          /\ ~links[m].Settled
          /\ links[m].URL = <<>>

----------------------------------------------------------------------------
(* The transcript, failed requests, and the lines that settle nothing *)

\* number of rejected-URL clauses in the seed text
ClauseCount(content) ==
    Cardinality({n \in 1..Len(content.Suffix) : content.Suffix[n] = ClausePrefix})

\* the seed message is the same but for its clause listing the rejected URLs
SameSeedButClauses(old, new) ==
    /\ new.Role = old.Role
    /\ new.Content.Kind = old.Content.Kind
    /\ new.Content.Sentence = old.Content.Sentence
    /\ new.Content.Description = old.Content.Description

HasURLLine(lines) ==
    \E n \in 1..Len(lines) : lines[n].Tag = "URL" /\ lines[n].URL # <<>>

\* C17: a request that fails (service error, no choices, or a reply without a
\* URL: value) presents no URL and asks whether to retry; y or Y issues
\* another request for the same candidate; any other answer leaves the
\* candidate unsettled, without a URL, with RejectedURLs and transcript as they
\* were, and goes on to the next candidate
C17_FailureRetrySkip ==
    [][/\ pc = "request" =>
             /\ (err' = "nil") <=> (url' # <<>>)
             /\ (\/ Len(links'[i].Messages) = Len(links[i].Messages)
                 \/ LastMessage(links'[i]).Role = "user"
                 \/ ~HasURLLine(LastMessage(links'[i]).Content.Lines)) => err' # "nil"
       /\ (pc = "got" /\ err # "nil") =>
             /\ url = <<>>
             /\ pc' = "retry"
             /\ i' = i
             /\ links' = links
       /\ pc = "retry" =>
             /\ links' = links
             /\ IF response' \in {<<"y">>, <<"Y">>}
                THEN pc' = "request" /\ i' = i
                ELSE /\ pc' = "loop"
                     /\ i' = i + 1
                     /\ ~links'[i].Settled
                     /\ links'[i].URL = <<>>]_vars

\* C17 witness: the loop is past a candidate that was skipped after a retry:
\* its transcript holds two replies in a row, it is unsettled and has no URL
C17_Witness ==
    /\ pc = "loop"
    /\ i > 1
    /\ ~links[i - 1].Settled
    /\ links[i - 1].URL = <<>>
    /\ \E m \in 1..(Len(links[i - 1].Messages) - 1) :
          /\ links[i - 1].Messages[m].Role = "assistant"
          /\ links[i - 1].Messages[m + 1].Role = "assistant"

C19_ViewNoChange ==
    [][(pc = "decide" /\ ToLower(response') = <<"v">>) =>
          /\ links' = links
          /\ browserErr' \in {"nil", "error"}
          /\ pc' = "decide"
          /\ i' = i
          /\ url' = url
          /\ confidence' = confidence
          /\ reasoning' = reasoning]_vars

\* C19 witness: the prompt is shown again after a v whose browser call failed
C19_Witness ==
    /\ pc = "decide"
    /\ response = <<"v">>
    /\ browserErr = "error"
    /\ ~links[i].Settled
    /\ links[i].URL = <<>>

----------------------------------------------------------------------------
(* Which line of a reply a parsed field comes from *)

IsURLTag(line)        == line.Tag = "URL"
IsConfidenceTag(line) == line.Tag = "CONFIDENCE"
IsScannedTag(line)    == line.Tag = "CONFIDENCE" /\ line.Scanned
IsReasoningTag(line)  == line.Tag = "REASONING"

\* index of the first and of the last line that passes the test, 0 if none
FirstWhere(lines, T(_)) ==
    LET S == {n \in 1..Len(lines) : T(lines[n])}
    IN  IF S = {} THEN 0 ELSE CHOOSE n \in S : \A m \in S : n <= m

LastWhere(lines, T(_)) ==
    LET S == {n \in 1..Len(lines) : T(lines[n])}
    IN  IF S = {} THEN 0 ELSE CHOOSE n \in S : \A m \in S : m <= n

\* the reply that has just been parsed
ParsedLines == LastMessage(links[i]).Content.Lines

\* C20 as stated: each field is the value of the first line carrying its tag,
\* and a reply with no non-empty URL: value is an error
C20_FirstTaggedLine ==
    pc = "got" =>
        LET lines == ParsedLines
            u == FirstWhere(lines, IsURLTag)
            c == FirstWhere(lines, IsConfidenceTag)
            r == FirstWhere(lines, IsReasoningTag)
        IN  /\ ~HasURLLine(lines) => err # "nil"
            /\ err = "nil" =>
                  /\ u > 0 /\ url = lines[u].URL
                  /\ c > 0 => confidence = lines[c].Number
                  /\ r > 0 => reasoning = lines[r].Reason

\* C20 amended: each field is the value of the last line carrying its tag (for
\* the confidence, the last one whose value scans as a number); a field with
\* no such line is empty or 0; the reply is an error exactly when it has no
\* URL: line or its last URL: line has no value, so a reply with no non-empty
\* URL: value is an error, and an error returns no URL, confidence or rationale
C20_LastTaggedLine ==
    pc = "got" =>
        LET lines == ParsedLines
            u == LastWhere(lines, IsURLTag)
            c == LastWhere(lines, IsScannedTag)
            r == LastWhere(lines, IsReasoningTag)
        IN  /\ (err = "nil") <=> (u > 0 /\ lines[u].URL # <<>>)
            /\ ~HasURLLine(lines) => err # "nil"
            /\ err = "nil" =>
                  /\ url = lines[u].URL
                  /\ confidence = (IF c > 0 THEN lines[c].Number ELSE 0)
                  /\ reasoning = (IF r > 0 THEN lines[r].Reason ELSE "")
            /\ err # "nil" => url = <<>> /\ confidence = 0 /\ reasoning = ""

\* C20 witness: a parsed reply with two URL: lines of different values, two
\* confidences and the second URL and confidence returned
C20_Witness ==
    /\ pc = "got"
    /\ err = "nil"
    /\ Len(ParsedLines) = 3
    /\ ParsedLines[1] = URLLine(FoundURL)
    /\ ParsedLines[2] = URLLine(OtherURL)
    /\ ParsedLines[3] = ConfidenceLine(80)
    /\ url = OtherURL
    /\ confidence = 80

----------------------------------------------------------------------------
(* The range of the stored confidence *)

\* C21: in every state the confidence stored on every candidate is within
\* [0,1] (0..100 hundredths), whatever number the reply's CONFIDENCE: line holds
C21_ConfidenceInUnitRange ==
    \A n \in 1..Len(links) :
        links[n].Confidence >= 0 /\ links[n].Confidence <= 100

----------------------------------------------------------------------------
(* Extraction: spans, repetition, sentences *)

\* the (StartPos, EndPos) spans of a candidate list
Spans(ls) == [n \in 1..Len(ls) |-> <<ls[n].StartPos, ls[n].EndPos>>]

\* C22: for every text the extracted spans are non-empty and within the text,
\* StartPos strictly increases along the list, and each candidate ends at or
\* before the start of the next, so no two spans overlap
C22_SpansOrderedDisjoint ==
    /\ \A n \in 1..Len(links) :
          /\ 0 <= links[n].StartPos
          /\ links[n].StartPos < links[n].EndPos
          /\ links[n].EndPos <= Len(text)
    /\ \A n, m \in 1..Len(links) :
          n < m => /\ links[n].StartPos < links[m].StartPos
                   /\ links[n].EndPos <= links[m].StartPos

\* C22 witness: two candidates that touch, after a first one whose label
\* holds an opening bracket
C22_Witness ==
    /\ Len(links) = 3
    /\ links[1].Text = <<"a", "[", "a">>
    /\ links[2].EndPos = links[3].StartPos

C24_SentenceHoldsLink ==
    \A n \in 1..Len(links) :
        \E a \in 0..(Len(links[n].Sentence) - (links[n].EndPos - links[n].StartPos)) :
            SubSeq(links[n].Sentence, a + 1, a + links[n].EndPos - links[n].StartPos)
                = SubSeq(text, links[n].StartPos + 1, links[n].EndPos)

----------------------------------------------------------------------------
(* The offsets the patcher works with *)

\* C26: when applyChanges is about to apply a settled candidate, the slice of
\* the partly patched text at the candidate's stored [StartPos, EndPos) is the
\* candidate's original link text [label](description)
C26_OffsetsNotStale ==
    (/\ pc = "patch"
     /\ k <= Len(sortedLinks)
     /\ sortedLinks[k].Settled
     /\ sortedLinks[k].URL # <<>>) =>
        /\ 0 <= sortedLinks[k].StartPos
        /\ sortedLinks[k].StartPos <= sortedLinks[k].EndPos
        /\ sortedLinks[k].EndPos <= Len(result)
        /\ SubSeq(result, sortedLinks[k].StartPos + 1, sortedLinks[k].EndPos)
               = <<"[">> \o sortedLinks[k].Text \o <<"]", "(">>
                     \o sortedLinks[k].Description \o <<")">>

----------------------------------------------------------------------------
(* Writing the output *)

\* C25 as stated: every run writes the output exactly once, and not before
\* every candidate is settled or skipped
C25_WrittenOnce ==
    /\ Len(output) <= 1
    /\ pc = "done" => Len(output) = 1
    /\ Len(output) > 0 => i > Len(links)

\* C25 amended: the output is written at most once, never while a candidate is
\* still to be resolved and only as the last step, with the patched text; a
\* run that ends has written once if it found a link and not at all if it
\* found none
C25_WrittenOnceIfLinks ==
    /\ [](Len(output) <= 1)
    /\ [](pc \in {"start", "loop", "request", "got", "retry", "verify", "decide",
                  "context", "apply", "patch", "write"} => Len(output) = 0)
    /\ [](pc = "done" => (Len(output) = 1 <=> Len(links) > 0))
    /\ [][output' # output =>
             /\ pc = "write"
             /\ pc' = "done"
             /\ i > Len(links)
             /\ output' = <<result>>]_vars

\* C25 witness: a run has ended with one write, one candidate settled and
\* another skipped
C25_Witness ==
    /\ pc = "done"
    /\ Len(output) = 1
    /\ \E n, m \in 1..Len(links) : links[n].Settled /\ ~links[m].Settled

----------------------------------------------------------------------------
(* The seed prompt *)

IsSeed(m) == m.Role = "user" /\ m.Content.Kind = "seed"

\* 1 when the transcript is empty, else 0: the messages a request puts before
\* the reply
SeedsDue(link) == IF link.Messages = <<>> THEN 1 ELSE 0

\* C27: a transcript that is not empty starts with the seed prompt and holds
\* no other seed; the seed is added by the first suggestion request and by no
\* other step; a request whose service call fails appends no reply, any other
\* request appends exactly the reply; no step makes a transcript shorter
C27_SeededOnce ==
    /\ [](\A n \in 1..Len(links) :
             links[n].Messages # <<>> =>
                 /\ IsSeed(links[n].Messages[1])
                 /\ \A m \in 2..Len(links[n].Messages) : ~IsSeed(links[n].Messages[m]))
    /\ [][/\ \A n \in 1..Len(links) :
                /\ Len(links'[n].Messages) >= Len(links[n].Messages)
                /\ (links[n].Messages = <<>> /\ links'[n].Messages # <<>>) =>
                       pc = "request" /\ n = i
          /\ pc = "request" =>
                /\ IsSeed(links'[i].Messages[1])
                /\ IF err' \in {"api", "nochoices"}
                   THEN Len(links'[i].Messages) =
                            Len(links[i].Messages) + SeedsDue(links[i])
                   ELSE /\ Len(links'[i].Messages) =
                               Len(links[i].Messages) + SeedsDue(links[i]) + 1
                        /\ LastMessage(links'[i]).Role = "assistant"]_vars

\* C27 witness: a request made after an automatic re-query has just failed:
\* the transcript ends with the message about the unreachable URL and no
\* reply follows it
C27_Witness ==
    /\ pc = "got"
    /\ err = "api"
    /\ Len(links[i].Messages) = 3
    /\ IsSeed(links[i].Messages[1])
    /\ links[i].Messages[2].Role = "assistant"
    /\ LastMessage(links[i]).Content.Kind = "inaccessible"

----------------------------------------------------------------------------
(* The clause of the seed prompt *)

\* the list written out with ", " between its entries
RECURSIVE Listed(_)
Listed(list) ==
    IF Len(list) = 0 THEN <<>>
    ELSE IF Len(list) = 1 THEN list[1]
    ELSE Listed(SubSeq(list, 1, Len(list) - 1)) \o <<",", " ">> \o list[Len(list)]

\* C28: once a candidate has rejected URLs, its seed prompt holds exactly one
\* clause on previously rejected URLs, and the clause lists exactly the
\* current RejectedURLs
C28_OneClauseListingRejected ==
    \A n \in 1..Len(links) :
        (links[n].Messages # <<>> /\ links[n].RejectedURLs # <<>>) =>
            /\ ClauseCount(links[n].Messages[1].Content) = 1
            /\ links[n].Messages[1].Content.Suffix =
                   <<ClausePrefix>> \o Listed(links[n].RejectedURLs)

----------------------------------------------------------------------------
(* Candidates that are done, and re-queries without end *)

\* C29: no step changes StartPos or EndPos of a candidate in the caller's
\* list, a step changes no candidate but the one being resolved, and a settled
\* or skipped candidate never changes again; applyChanges moves offsets in its
\* own copy only
C29_TerminalReadOnly ==
    [][\A n \in 1..Len(links) :
          /\ links'[n].StartPos = links[n].StartPos
          /\ links'[n].EndPos = links[n].EndPos
          /\ n # i => links'[n] = links[n]
          /\ links[n].Settled => links'[n] = links[n]
          /\ pc \in {"apply", "patch", "write", "done"} => links'[n] = links[n]]_vars

\* C29 witness: the run is over, the patcher has moved the offsets of a
\* settled candidate in its copy, and the caller's candidate has the offsets
\* it was extracted with
C29_Witness ==
    /\ pc = "done"
    /\ \E n \in 1..Len(links), m \in 1..Len(sortedLinks) :
          /\ links[n].Settled
          /\ sortedLinks[m].Text = links[n].Text
          /\ sortedLinks[m].StartPos # links[n].StartPos
          /\ SubSeq(text, links[n].StartPos + 1, links[n].EndPos) =
                 <<"[">> \o links[n].Text \o <<"]", "(">> \o links[n].Description \o <<")">>

\* C30: however many automatic re-queries a candidate has had, a reply with a
\* rejected URL and a failed probe both lead to one more suggestion request,
\* with no line read from the user and the candidate neither settled nor
\* skipped: nothing counts the re-queries
C30_NoRequeryCap ==
    [][/\ (pc = "got" /\ err = "nil" /\ InList(url, links[i].RejectedURLs)) =>
              /\ pc' = "request"
              /\ i' = i
              /\ AutoCount(links'[i]) = AutoCount(links[i]) + 1
              /\ ~links'[i].Settled
              /\ response' = response
       /\ (pc = "verify" /\ ~(statusCode' \in 200..399)) =>
              /\ pc' = "request"
              /\ i' = i
              /\ AutoCount(links'[i]) = AutoCount(links[i]) + 1
              /\ ~links'[i].Settled
              /\ response' = response]_vars

\* C30 witness: the transcript is as long as the model lets it grow, every
\* reply in it was followed by an automatic re-query, of both kinds, no line
\* was ever read from the user, and the next step is one more request
C30_Witness ==
    /\ pc = "request"
    /\ response = <<>>
    /\ Len(links) = 1
    /\ Len(links[i].Messages) = MaxMessages
    /\ 2 * AutoCount(links[i]) + 1 = Len(links[i].Messages)
    /\ \E a, b \in 1..Len(links[i].Messages) :
          /\ links[i].Messages[a].Content.Kind = "already"
          /\ links[i].Messages[b].Content.Kind = "inaccessible"
    /\ ~links[i].Settled

----------------------------------------------------------------------------
(* The sentence around a position *)

EndsSentence(c) == c = "." \/ c = "!" \/ c = "?" \/ c = "\n"

Blank(c) == c = " " \/ c = "\n" \/ c = "\t" \/ c = "\r"

\* r is x without the white space at its two ends
IsTrimmed(r, x) ==
    \E a \in 0..Len(x) :
        /\ a + Len(r) <= Len(x)
        /\ SubSeq(x, a + 1, a + Len(r)) = r
        /\ \A j \in 1..a : Blank(x[j])
        /\ \A j \in (a + Len(r) + 1)..Len(x) : Blank(x[j])
        /\ r # <<>> => ~Blank(r[1]) /\ ~Blank(r[Len(r)])

\* the smallest s <= p with no terminator in t[s:p]
StartOfSentence(t, p) ==
    CHOOSE s \in 0..p :
        /\ \A j \in (s + 1)..p : ~EndsSentence(t[j])
        /\ \A r \in 0..(s - 1) : \E j \in (r + 1)..p : EndsSentence(t[j])

\* one past the first terminator at or after p, Len(t) if there is none
EndOfSentence(t, p) ==
    IF \E j \in (p + 1)..Len(t) : EndsSentence(t[j])
    THEN CHOOSE e \in (p + 1)..Len(t) :
             /\ EndsSentence(t[e])
             /\ \A j \in (p + 1)..(e - 1) : ~EndsSentence(t[j])
    ELSE Len(t)

\* C31: extractSentence(text, position) is the trimmed text[s:e], s the
\* smallest index <= position with no terminator in text[s:position], e one
\* past the first terminator at or after position or the length of the text;
\* the result holds at most one terminator, as its last character, and is the
\* whole trimmed text when the text has no terminator
C31_SentenceBounds ==
    pc = "sentenced" =>
        /\ IsTrimmed(sentence, SubSeq(text, StartOfSentence(text, sentencePos) + 1,
                                            EndOfSentence(text, sentencePos)))
        /\ \A j \in 1..(Len(sentence) - 1) : ~EndsSentence(sentence[j])
        /\ (\A j \in 1..Len(text) : ~EndsSentence(text[j])) => IsTrimmed(sentence, text)

\* C31 witness: the sentence found in the middle of a text ends with its
\* terminator and starts after the terminator before it
C31_Witness ==
    /\ pc = "sentenced"
    /\ text = <<".", "a", "!", "a">>
    /\ sentencePos = 1
    /\ sentence = <<"a", "!">>

----------------------------------------------------------------------------
(* The offsets used by a split *)

\* C32: every split of applyChanges uses offsets with
\* 0 <= StartPos <= EndPos <= len(current text), so patching never aborts
\* with an out-of-range slice
C32_SplitsInRange ==
    /\ pc # "panic"
    /\ (pc = "patch" /\ k <= Len(sortedLinks) /\ ShouldApply(sortedLinks[k])) =>
           /\ 0 <= sortedLinks[k].StartPos
           /\ sortedLinks[k].StartPos <= sortedLinks[k].EndPos
           /\ sortedLinks[k].EndPos <= Len(result)

----------------------------------------------------------------------------
(* The span of a candidate *)

\* the characters of s
CharsOf(s) == {s[j] : j \in 1..Len(s)}

\* C33: for every extracted candidate 0 <= StartPos < EndPos <= len(text),
\* text[StartPos:EndPos] is "[" label "](" description ")" built from the
\* candidate's own label and description, the label is non-empty and holds no
\* "]", the description is non-empty and holds no ")"
C33_SpanAnchorsLink ==
    \A n \in 1..Len(links) :
        /\ 0 <= links[n].StartPos
        /\ links[n].StartPos < links[n].EndPos
        /\ links[n].EndPos <= Len(text)
        /\ SubSeq(text, links[n].StartPos + 1, links[n].EndPos)
               = <<"[">> \o links[n].Text \o <<"]", "(">> \o links[n].Description \o <<")">>
        /\ links[n].Text # <<>>
        /\ "]" \notin CharsOf(links[n].Text)
        /\ links[n].Description # <<>>
        /\ ")" \notin CharsOf(links[n].Description)

\* C33 witness: a candidate extracted past the start of the text whose label
\* holds an opening bracket, ahead of more text
C33_Witness ==
    \E n \in 1..Len(links) :
        /\ links[n].StartPos > 0
        /\ links[n].EndPos < Len(text)
        /\ "[" \in CharsOf(links[n].Text)

----------------------------------------------------------------------------
(* How the resolution of a candidate ends *)

\* control is at one of the two prompts shown for a presented suggestion
AtSuggestion == pc \in {"decide", "context"}

\* C34: a candidate leaves its resolution unsettled only by an answer other
\* than y to the retry question after a failed request; once a suggestion is
\* presented, every step stays at the prompts of that suggestion for the same
\* candidate or settles the candidate
C34_SkippedOnlyByDecliningRetry ==
    [][/\ (InResolver /\ ~InResolver') =>
             \/ links'[i].Settled
             \/ /\ pc = "retry"
                /\ err # "nil"
                /\ response' \notin {<<"y">>, <<"Y">>}
       /\ (InResolver /\ InResolver') => i' = i
       /\ AtSuggestion =>
             \/ AtSuggestion' /\ i' = i /\ ~links'[i].Settled
             \/ ~InResolver' /\ links'[i].Settled]_vars

\* C34 witness: the suggestion is still at the decision prompt and the
\* candidate unsettled, a URL on its rejected list, y just refused below the
\* floor
C34_Witness ==
    /\ pc = "decide"
    /\ ~links[i].Settled
    /\ links[i].RejectedURLs # <<>>
    /\ confidence < 80
    /\ ToLower(response) = <<"y">>

====
